---- MODULE Spec2Model ----
(***************************************************************************)
(* Binary symbol resolution core of BochumOxide: binary_handling/mod.rs    *)
(* (from_path), binary_handling/pe.rs (PEBinary) and                       *)
(* binary_handling/elf.rs (ELFBinary).                                     *)
(*                                                                         *)
(* A file is an abstract image of what goblin's Object::parse hands to     *)
(* the code: headers, section contents already decoded into entries, and,  *)
(* for a PLT section, the addresses the memory hooks see when the bytes at *)
(* each 4-byte offset are emulated.                                        *)
(***************************************************************************)
EXTENDS Naturals, Sequences, FiniteSets, TLC

\* ---------------------------------------------------------------- bounds

\* GOT slot addresses (r_offset, hooked addresses) range over 0..MaxSlot.
MaxSlot == 2

\* Number of callers that query an opened handle.
NumCallers == 2

\* Sizes in bytes of the .plt sections whose size is varied: 0..MaxPltSize.
MaxPltSize == 10

\* ------------------------------------------------------- program constants

\* elf.rs:279,292: candidates are 4 bytes apart.
Stride == 4

\* ------------------------------------------------------------------ maps

\* HashMap::new()
EmptyMap == [k \in {} |-> 0]

\* HashMap::insert: an existing key is overwritten.
Insert(m, k, v) == [x \in (DOMAIN m) \cup {k} |-> IF x = k THEN v ELSE m[x]]

\* HashMap::contains_key
ContainsKey(m, k) == k \in DOMAIN m

\* HashMap::extend(other): other's entries overwrite.
Extend(m, other) ==
    [x \in (DOMAIN m) \cup (DOMAIN other) |->
        IF x \in DOMAIN other THEN other[x] ELSE m[x]]

\* Option<T>
None == [some |-> FALSE]
Some(v) == [some |-> TRUE, val |-> v]

\* ------------------------------------------------------------ input files

\* Section header and decoded content.  sh_link is a 0-based index into the
\* section header table (sections[i + 1]); SHN_UNDEF is index 0.  For a PLT
\* section data[i] is the sequence of addresses the hooks are called with
\* when the bytes from offset 4 * (i - 1) on are run from the saved context,
\* and stops[i] is what ends that run where it is not an emulator error.
Section(name, type, link, addr, size, entsize, data) ==
    [name |-> name, sh_type |-> type, sh_link |-> link, sh_addr |-> addr,
     sh_offset |-> 0, sh_size |-> size, sh_entsize |-> entsize,
     data |-> data, stops |-> <<>>]

NullSection == Section("", "SHT_NULL", 0, 0, 0, 0, <<>>)

\* A string-table entry whose bytes are not a valid string.
InvalidString == "<invalid string>"

Sym(name, value) == [st_name |-> name, st_value |-> value]

Reloc(sym, offset) == [r_sym |-> sym, r_offset |-> offset]

Dyn(tag, val) == [d_tag |-> tag, d_val |-> val]

\* The hooked addresses of one candidate run: none, or one slot read.
OneReadTraces == {<<>>} \cup {<<a>> : a \in 0..MaxSlot}

\* Relocations against dynsym entries 1 and 2: each absent or at some slot.
RelocChoices ==
    {r1 \o r2 :
        r1 \in {<<>>} \cup {<<Reloc(1, a)>> : a \in 0..MaxSlot},
        r2 \in {<<>>} \cup {<<Reloc(2, a)>> : a \in 0..MaxSlot}}

\* A dynamically linked x86-64 image: .dynstr, .dynsym, .rela.plt, .plt, with
\* names "f" and second (a plain name, or one that is also the prefixed key
\* the aggregation derives from "f").
DynElf(second, v1, v2, relocs, pltaddr, traces) ==
    [fmt |-> "elf", e_machine |-> "EM_X86_64", is_64 |-> TRUE, raw_len |-> 64,
     program_headers |-> <<"PT_LOAD", "PT_INTERP", "PT_DYNAMIC">>,
     dynamic |-> Some(<<Dyn("DT_NEEDED", 1), Dyn("DT_PLTGOT", 1)>>),
     sections |-> <<
        NullSection,
        Section(".dynstr", "SHT_STRTAB", 0, 0, 3, 0, <<"", "f", second>>),
        Section(".dynsym", "SHT_DYNSYM", 1, 0, 3, 1,
                <<Sym(0, 0), Sym(1, v1), Sym(2, v2)>>),
        Section(".rela.plt", "SHT_RELA", 2, 0, Len(relocs), 1, relocs),
        Section(".plt", "SHT_PROGBITS", 0, pltaddr, Stride * Len(traces), 0, traces)
     >>]

AggElfFiles ==
    {DynElf(second, v1, v2, relocs, pltaddr, <<t1, t2>>) :
        second \in {"plt.f", "got.f", "g"},
        v1 \in {0, 11}, v2 \in {0, 12},
        relocs \in RelocChoices,
        pltaddr \in {16},
        t1 \in OneReadTraces, t2 \in OneReadTraces}

\* Statically linked (no PT_INTERP) images that still carry relocation and
\* PLT sections, with and without a dynamic array; the relocation section
\* links to the symbol table or to no section of the file.
StaticElfFiles ==
    {[DynElf("plt.f", v1, 12, relocs, 16, <<t1, <<>> >>) EXCEPT
        !.program_headers = <<"PT_LOAD">>, !.dynamic = dyn,
        !.sections[4].sh_link = link] :
        v1 \in {0, 11},
        link \in {2, 9},
        relocs \in {<<>>, <<Reloc(1, 1)>>, <<Reloc(1, 1), Reloc(2, 2)>>},
        t1 \in {<<>>, <<1>>},
        dyn \in {None, Some(<<Dyn("DT_NEEDED", 1)>>),
                 Some(<<Dyn("DT_PLTGOT", 1)>>)}}

\* Dynamically linked images of other machines and classes, with and without
\* DT_PLTGOT and a PLT section.
MiscElfFiles ==
    {[DynElf("plt.f", 11, 0, <<Reloc(2, 1)>>, pltaddr, <<t1>>) EXCEPT
        !.e_machine = m, !.is_64 = b, !.dynamic = dyn,
        !.sections[5] = IF hasplt THEN @ ELSE [@ EXCEPT !.name = ".text"]] :
        m \in {"EM_386", "EM_ARM", "EM_AARCH64", "EM_MIPS"},
        b \in BOOLEAN,
        t1 \in {<<>>, <<1>>},
        pltaddr \in {0, 16},
        hasplt \in BOOLEAN,
        dyn \in {None, Some(<<Dyn("DT_NEEDED", 1)>>),
                 Some(<<Dyn("DT_NEEDED", 1), Dyn("DT_PLTGOT", 1)>>)}}

\* Images whose first stub makes the hooks fire twice (a read of mapped
\* memory, then another access), once or never, and whose run ends with an
\* emulator error, at the until address, or with the timeout or the
\* instruction count used up. "f" is in slot 1 and "g" in slot 2.
HookElfFiles ==
    {[DynElf("g", 0, 0, <<Reloc(1, 1), Reloc(2, 2)>>, 16, <<t1, t2>>) EXCEPT
        !.sections[5].stops = <<s1, "error">>] :
        t1 \in {<<>>, <<1>>, <<1, 2>>, <<2, 1>>, <<1, 0>>, <<0, 2>>, <<1, 1>>},
        t2 \in {<<>>, <<2>>},
        s1 \in {"error", "until", "timeout", "count"}}

\* Images with all three PLT sections: .plt.sec comes first in the section
\* header table, and .plt.got lies at a lower address than .plt. "f" is in
\* slot 1 and "g" in slot 2; every stub reads one of the slots or nothing.
MultiPltElfFiles ==
    {[DynElf("g", 0, 0, <<Reloc(1, 1), Reloc(2, 2)>>, 16, <<t1, t2>>) EXCEPT
        !.sections = <<@[1], @[2], @[3], @[4],
                       Section(".plt.sec", "SHT_PROGBITS", 0, 48, Stride, 0, <<t4>>),
                       @[5],
                       Section(".plt.got", "SHT_PROGBITS", 0, 8, Stride, 0, <<t3>>)>>] :
        t1 \in {<<>>, <<1>>, <<2>>}, t2 \in {<<>>, <<1>>, <<2>>},
        t3 \in {<<>>, <<1>>, <<2>>}, t4 \in {<<>>, <<1>>, <<2>>}}

\* Images whose .plt has every size from 0 on, multiples of 4 or not; each
\* whole 4-byte candidate is a stub that reads slot 1.
SizedPltElfFiles ==
    {[DynElf("g", 0, 0, <<Reloc(1, 1)>>, 16,
             [i \in 1..(size \div Stride) |-> <<1>>]) EXCEPT
        !.sections[5].sh_size = size] :
        size \in 0..MaxPltSize}

\* Images with two relocation sections, .rela.plt of type SHT_RELA and,
\* later in the section header table, .rel.dyn of type SHT_REL whose sh_link
\* names .dynsym or is SHN_UNDEF, and a section of another type that holds
\* relocation data. Symbol 1 is "f", symbol 2 is "g", the name offset of
\* symbol 3 lies beyond the end of .dynstr and the name of symbol 4 does not
\* decode; relocations name these, symbol 0 or a symbol beyond the table.
RelocElfFiles ==
    {[DynElf("g", 0, 0, rela, 16, << <<1>>, <<2>> >>) EXCEPT
        !.sections = <<@[1],
                       Section(".dynstr", "SHT_STRTAB", 0, 0, 4, 0,
                               <<"", "f", "g", InvalidString>>),
                       Section(".dynsym", "SHT_DYNSYM", 1, 0, 5, 1,
                               <<Sym(0, 0), Sym(1, 0), Sym(2, 0), Sym(7, 0),
                                 Sym(3, 0)>>),
                       @[4], @[5],
                       Section(".rel.dyn", "SHT_REL", dynlink, 0, Len(rel), 1,
                               rel),
                       Section(".data.rel.ro", "SHT_PROGBITS", 2, 0, 1, 1,
                               <<Reloc(2, 0)>>)>>] :
        rela \in {<<Reloc(1, 1), Reloc(2, 2)>>, <<Reloc(1, 1), Reloc(1, 2)>>,
                  <<Reloc(0, 2), Reloc(2, 1)>>, <<Reloc(3, 2), Reloc(1, 1)>>,
                  <<Reloc(9, 2), Reloc(2, 2)>>, <<Reloc(1, 1), Reloc(4, 2)>>},
        rel \in {<<>>, <<Reloc(1, 2)>>, <<Reloc(2, 1), Reloc(1, 0)>>,
                 <<Reloc(3, 1)>>},
        dynlink \in {0, 2}}

\* Images with four sections of symbol entries after .plt: .symtab of type
\* SHT_SYMTAB with its own .strtab ("f", "h" and a string that does not
\* decode), a section of type 0x6ffffff3 or of another type linked to
\* .dynstr, and a section of type SHT_PROGBITS. "f" has a relocation for
\* slot 1, which the only stub reads.
SymtabElf(v1, v2, symtab, link, type, c) ==
    [DynElf("g", v1, v2, <<Reloc(1, 1)>>, 16, << <<1>> >>) EXCEPT
        !.sections = @ \o
            <<Section(".symtab", "SHT_SYMTAB", link, 0, Len(symtab), 1, symtab),
              Section(".strtab", "SHT_STRTAB", 0, 0, 4, 0,
                      <<"", "f", "h", InvalidString>>),
              Section(".SUNW_ldynsym", type, 1, 0, 2, 1,
                      <<Sym(0, 0), Sym(2, c)>>),
              Section(".debug_info", "SHT_PROGBITS", 1, 0, 2, 1,
                      <<Sym(0, 0), Sym(1, 9)>>)>>]

\* Well-formed symbol tables: names with a zero and a non-zero value, the
\* same name twice in one table and in two tables.
SymtabElfFiles ==
    {SymtabElf(v1, v2, symtab, 6, type, c) :
        v1 \in {0, 11}, v2 \in {0, 12},
        symtab \in {<<Sym(0, 0), Sym(1, 0), Sym(2, 22)>>,
                    <<Sym(0, 0), Sym(1, 21), Sym(2, 0)>>,
                    <<Sym(0, 0), Sym(1, 21), Sym(1, 23)>>},
        type \in {"SHT_SUNW_LDYNSYM", "SHT_GNU_HASH"},
        c \in {0, 13}}

\* Symbol tables with a name offset beyond the end of the string table or
\* a name that does not decode, on an entry with a zero or a non-zero
\* value, and with an sh_link that names no section of the file.
BadSymtabElfFiles ==
    {SymtabElf(11, 0, symtab, link, "SHT_SUNW_LDYNSYM", 13) :
        symtab \in {<<Sym(0, 0), Sym(1, 21), Sym(7, 5)>>,
                    <<Sym(0, 0), Sym(7, 0), Sym(1, 21)>>,
                    <<Sym(0, 0), Sym(3, 5), Sym(1, 21)>>,
                    <<Sym(0, 0), Sym(3, 0), Sym(2, 22)>>,
                    <<Sym(0, 0), Sym(1, 21), Sym(2, 22)>>},
        link \in {6, 99}}

\* Images with one structural defect in .dynstr, .dynsym, .rela.plt or
\* .plt (sections 2 to 5): bytes that begin at the end of the file, an
\* sh_entsize of 0, or an sh_link that names no section; dynamically or
\* statically linked, of a machine the emulator is or is not created for.
MalformedElf(static, m, k, defect) ==
    LET f == [DynElf("g", 11, 0, <<Reloc(1, 1)>>, 16, << <<1>> >>) EXCEPT
                 !.e_machine = m,
                 !.program_headers = IF static THEN <<"PT_LOAD">> ELSE @]
    IN CASE defect = "offset" -> [f EXCEPT !.sections[k].sh_offset = f.raw_len]
         [] defect = "entsize" -> [f EXCEPT !.sections[k].sh_entsize = 0]
         [] defect = "link" -> [f EXCEPT !.sections[k].sh_link = 9]

MalformedElfFiles ==
    {MalformedElf(static, m, k, defect) :
        static \in BOOLEAN, m \in {"EM_X86_64", "EM_MIPS"}, k \in 2..5,
        defect \in {"offset", "entsize", "link"}}

ElfFiles ==
    AggElfFiles \cup StaticElfFiles \cup MiscElfFiles \cup HookElfFiles
        \cup MultiPltElfFiles \cup SizedPltElfFiles \cup RelocElfFiles
        \cup SymtabElfFiles \cup BadSymtabElfFiles \cup MalformedElfFiles

\* goblin::pe::export::Export (name, reexport, rva) and import::Import
\* (name, offset) as the code reads them.
Export(name, reexport, rva) == [name |-> name, reexport |-> reexport, rva |-> rva]

Import(name, offset) == [name |-> name, offset |-> offset]

DLLOrdinal(k) == [kind |-> "DLLOrdinal", ordinal |-> k]

DLLName == [kind |-> "DLLName"]

\* Exports and imports named "f" and second, each absent, at 0 or at a tag.
AggPeFiles ==
    {[fmt |-> "pe", exports |-> e1 \o e2, imports |-> i1 \o i2] :
        e1 \in {<<>>} \cup {<<Export(Some("f"), None, v)>> : v \in {0, 21}},
        e2 \in {<<>>} \cup {<<Export(Some(second), None, v)>> :
                                second \in {"eat.f", "iat.f", "g"}, v \in {0, 22}},
        i1 \in {<<>>} \cup {<<Import("f", v)>> : v \in {0, 31}},
        i2 \in {<<>>} \cup {<<Import(second, v)>> :
                                second \in {"eat.f", "iat.f", "g"}, v \in {0, 32}}}

\* Exports without a name: re-exported by ordinal, by name, or not at all.
OrdinalPeFiles ==
    {[fmt |-> "pe",
      exports |-> <<Export(Some("f"), None, 21), Export(None, r, 23)>>,
      imports |-> <<Import("f", 31)>>] :
        r \in {None, Some(DLLName), Some(DLLOrdinal(7))}}

\* Several exports without a name, re-exported by the same or by different
\* ordinals, with and without an export that carries the synthesized name.
ReexportPeFiles ==
    {[fmt |-> "pe",
      exports |-> <<Export(None, Some(DLLOrdinal(k1)), 23),
                    Export(None, Some(DLLOrdinal(k2)), 24)>> \o named,
      imports |-> <<Import("f", 31)>>] :
        k1 \in {7, 8}, k2 \in {7, 8},
        named \in {<<>>, <<Export(Some("ordinal_7"), None, 25)>>}}

PeFiles == AggPeFiles \cup OrdinalPeFiles \cup ReexportPeFiles

\* Neither PE nor ELF.
OtherFiles == {[fmt |-> "other"]}

Files == PeFiles \cup ElfFiles \cup OtherFiles

\* ------------------------------------------------------------- results

\* anyhow::Result: Ok(value) or Err(message); a panic unwinds past it.
Ok(v) == [tag |-> "Ok", val |-> v]

Err(msg) == [tag |-> "Err", msg |-> msg]

Panic == [tag |-> "Panic"]

\* ------------------------------------------------------------ PE parsing

\* pe.rs:69-84 parse_iat: imports collected into a map, later entries of the
\* same name replacing earlier ones.
RECURSIVE CollectImports(_, _, _)
CollectImports(imports, i, acc) ==
    IF i > Len(imports) THEN acc
    ELSE CollectImports(imports, i + 1,
                        Insert(acc, imports[i].name, imports[i].offset))

parse_iat(f) ==
    IF f.fmt = "other" THEN Err("Failed to parse raw data")
    ELSE IF f.fmt # "pe" THEN Err("No valid PE")
    ELSE Ok(CollectImports(f.imports, 1, EmptyMap))

\* pe.rs:99-109: the key of one export.
ExportName(x) ==
    IF x.name.some THEN Ok(x.name.val)
    ELSE IF x.reexport.some /\ x.reexport.val.kind = "DLLOrdinal"
         THEN Ok("ordinal_" \o ToString(x.reexport.val.ordinal))
         ELSE Err("Could not parse export entry")

\* CollectExports that leaves out an export without a key.
RECURSIVE CollectExportsSkip(_, _, _)
CollectExportsSkip(exports, i, acc) ==
    IF i > Len(exports) THEN Ok(acc)
    ELSE LET name == ExportName(exports[i]) IN
         CollectExportsSkip(exports, i + 1,
             IF name.tag = "Err" THEN acc
             ELSE Insert(acc, name.val, exports[i].rva))

\* CollectExports that keeps the first export of a key.
RECURSIVE CollectExportsKeepFirst(_, _, _)
CollectExportsKeepFirst(exports, i, acc) ==
    IF i > Len(exports) THEN Ok(acc)
    ELSE LET name == ExportName(exports[i]) IN
         IF name.tag = "Err" THEN name
         ELSE CollectExportsKeepFirst(exports, i + 1,
                  IF ContainsKey(acc, name.val) THEN acc
                  ELSE Insert(acc, name.val, exports[i].rva))

\* pe.rs:95-112: the first export without a key fails the collection; a
\* later export of a key replaces an earlier one (collect into a HashMap).
RECURSIVE CollectExports(_, _, _)
CollectExports(exports, i, acc) ==
    IF i > Len(exports) THEN Ok(acc)
    ELSE LET name == ExportName(exports[i]) IN
         IF name.tag = "Err" THEN name
         ELSE CollectExports(exports, i + 1,
                             Insert(acc, name.val, exports[i].rva))

parse_eat(f) ==
    IF f.fmt = "other" THEN Err("Failed to parse raw data")
    ELSE IF f.fmt # "pe" THEN Err("No valid PE")
    ELSE CollectExports(f.exports, 1, EmptyMap)

\* pe.rs:34-41: one iteration of the loop over the export map.
EatStep(symbols_, name, addr) ==
    Insert(Insert(symbols_, "eat." \o name, addr), name, addr)

\* IatStep without the contains_key test: an import replaces the bare name.
IatStepOverwrite(symbols_, name, addr) ==
    Insert(Insert(symbols_, "iat." \o name, addr), name, addr)

\* pe.rs:44-58: one iteration of the loop over the import map.
IatStep(symbols_, name, addr) ==
    LET s1 == Insert(symbols_, "iat." \o name, addr) IN
    IF ContainsKey(s1, name) THEN s1 ELSE Insert(s1, name, addr)

\* ----------------------------------------------------------- ELF parsing

\* elf.rs:110, 324: no program header of type PT_INTERP.
StaticallyLinked(f) ==
    \A i \in 1..Len(f.program_headers) : f.program_headers[i] # "PT_INTERP"

\* section_headers.get(idx): idx is 0-based.
SectionGet(f, idx) ==
    IF idx < Len(f.sections) THEN Some(f.sections[idx + 1]) ELSE None

\* Symtab::get(idx) on the first sh_size / sh_entsize entries.
SymtabGet(syms, idx) ==
    IF idx < Len(syms) THEN Some(syms[idx + 1]) ELSE None

\* Strtab::get(offset): nothing beyond the end of the table, else the
\* string at the offset or the error of decoding it.
StrtabGet(strs, off) ==
    IF off >= Len(strs) THEN None
    ELSE IF strs[off + 1] = InvalidString THEN Some(Err("bad string"))
    ELSE Some(Ok(strs[off + 1]))

\* The bytes sh_offset .. sh_offset + sh_size of a section lie in the file.
InFile(f, sec) == sec.sh_offset + sec.sh_size <= f.raw_len

\* Symtab::parse(raw, sh_offset, sh_size / sh_entsize, ctx): the division
\* is evaluated first and panics on a zero divisor; entries outside the
\* file are an error.
SymtabParse(f, sec) ==
    IF sec.sh_entsize = 0 THEN Panic
    ELSE LET count == sec.sh_size \div sec.sh_entsize IN
         IF ~InFile(f, sec) \/ count > Len(sec.data) THEN Err("bad symtab")
         ELSE Ok(SubSeq(sec.data, 1, count))

\* Strtab::parse(raw, sh_offset, sh_size, 0): a table outside the file is an
\* error.
StrtabParse(f, sec) ==
    IF ~InFile(f, sec) THEN Err("bad strtab") ELSE Ok(sec.data)

\* RelocSection::parse(raw, sh_offset, sh_size, is_rela, ctx).
RelocSectionParse(f, sec) ==
    IF ~InFile(f, sec) THEN Err("Failed to get reloc section")
    ELSE Ok(sec.data)

\* elf.rs:360: &raw_data[sh_offset .. sh_offset + sh_size] panics when the
\* range does not lie in the file.
Slice(f, sec) == IF InFile(f, sec) THEN Ok(sec.data) ELSE Panic

\* GotRelocs that looks up the symbol of every relocation, index 0 too.
RECURSIVE GotRelocsWithNull(_, _, _, _, _)
GotRelocsWithNull(relocs, i, symbols_, symbol_strings, got_symbols) ==
    IF i > Len(relocs) THEN Ok(got_symbols)
    ELSE LET reloc == relocs[i]
             symbol == SymtabGet(symbols_, reloc.r_sym)
             symbol_name == IF symbol.some
                            THEN StrtabGet(symbol_strings, symbol.val.st_name)
                            ELSE None
         IN  IF ~symbol.some \/ ~symbol_name.some
             THEN GotRelocsWithNull(relocs, i + 1, symbols_, symbol_strings,
                                    got_symbols)
             ELSE IF symbol_name.val.tag # "Ok"
             THEN Err("Failed to get symbol string")
             ELSE GotRelocsWithNull(relocs, i + 1, symbols_, symbol_strings,
                      Insert(got_symbols, symbol_name.val.val, reloc.r_offset))

\* GotRelocs that keeps the first r_offset stored under a name.
RECURSIVE GotRelocsKeepFirst(_, _, _, _, _)
GotRelocsKeepFirst(relocs, i, symbols_, symbol_strings, got_symbols) ==
    IF i > Len(relocs) THEN Ok(got_symbols)
    ELSE LET reloc == relocs[i]
             symbol == SymtabGet(symbols_, reloc.r_sym)
             symbol_name == IF symbol.some
                            THEN StrtabGet(symbol_strings, symbol.val.st_name)
                            ELSE None
         IN  IF reloc.r_sym = 0 \/ ~symbol.some \/ ~symbol_name.some
             THEN GotRelocsKeepFirst(relocs, i + 1, symbols_, symbol_strings,
                                     got_symbols)
             ELSE IF symbol_name.val.tag # "Ok"
             THEN Err("Failed to get symbol string")
             ELSE GotRelocsKeepFirst(relocs, i + 1, symbols_, symbol_strings,
                      IF ContainsKey(got_symbols, symbol_name.val.val)
                      THEN got_symbols
                      ELSE Insert(got_symbols, symbol_name.val.val,
                                  reloc.r_offset))

\* elf.rs:158-173: the relocations of one section, in order. Index 0, an
\* index beyond the symbol table and a name offset beyond the string table
\* are passed over; a string that does not decode fails the pass.
RECURSIVE GotRelocs(_, _, _, _, _)
GotRelocs(relocs, i, symbols_, symbol_strings, got_symbols) ==
    IF i > Len(relocs) THEN Ok(got_symbols)
    ELSE LET reloc == relocs[i]
             symbol == SymtabGet(symbols_, reloc.r_sym)
             symbol_name == IF symbol.some
                            THEN StrtabGet(symbol_strings, symbol.val.st_name)
                            ELSE None
         IN  IF reloc.r_sym = 0 \/ ~symbol.some \/ ~symbol_name.some
             THEN GotRelocs(relocs, i + 1, symbols_, symbol_strings,
                            got_symbols)
             ELSE IF symbol_name.val.tag # "Ok"
             THEN Err("Failed to get symbol string")
             ELSE GotRelocs(relocs, i + 1, symbols_, symbol_strings,
                      Insert(got_symbols, symbol_name.val.val, reloc.r_offset))

\* elf.rs:114-174: the loop over the section headers; walked counts the
\* relocation sections decoded.
RECURSIVE GotSections(_, _, _, _)
GotSections(f, i, got_symbols, walked) ==
    IF i > Len(f.sections) THEN [res |-> Ok(got_symbols), walked |-> walked]
    ELSE LET section == f.sections[i] IN
    IF (section.sh_type # "SHT_REL" /\ section.sh_type # "SHT_RELA")
       \/ section.sh_link = 0
    THEN GotSections(f, i + 1, got_symbols, walked)
    ELSE LET symbol_section == SectionGet(f, section.sh_link) IN
    IF ~symbol_section.some
    THEN [res |-> Err("Failed to get symbol section"), walked |-> walked]
    ELSE LET symbols_ == SymtabParse(f, symbol_section.val) IN
    IF symbols_.tag # "Ok" THEN [res |-> symbols_, walked |-> walked]
    ELSE LET symbol_string_section ==
                 SectionGet(f, symbol_section.val.sh_link) IN
    IF ~symbol_string_section.some
    THEN [res |-> Err("Failed to get symbol string section"), walked |-> walked]
    ELSE LET symbol_strings == StrtabParse(f, symbol_string_section.val) IN
    IF symbol_strings.tag # "Ok"
    THEN [res |-> symbol_strings, walked |-> walked]
    ELSE LET reloc_section == RelocSectionParse(f, section) IN
    IF reloc_section.tag # "Ok" THEN [res |-> reloc_section, walked |-> walked]
    ELSE LET inserted == GotRelocs(reloc_section.val, 1, symbols_.val,
                                   symbol_strings.val, got_symbols) IN
    IF inserted.tag # "Ok" THEN [res |-> inserted, walked |-> walked + 1]
    ELSE GotSections(f, i + 1, inserted.val, walked + 1)

\* parse_got without the early return for statically linked images.
parse_got_no_early_return(f) ==
    IF f.fmt = "other"
    THEN [res |-> Err("Failed to parse raw data"), walked |-> 0]
    ELSE IF f.fmt # "elf" THEN [res |-> Err("No valid ELF"), walked |-> 0]
    ELSE GotSections(f, 1, EmptyMap, 0)

\* elf.rs:100-177 parse_got.
parse_got(f) ==
    IF f.fmt = "other"
    THEN [res |-> Err("Failed to parse raw data"), walked |-> 0]
    ELSE IF f.fmt # "elf" THEN [res |-> Err("No valid ELF"), walked |-> 0]
    ELSE IF StaticallyLinked(f) THEN [res |-> Ok(EmptyMap), walked |-> 0]
    ELSE GotSections(f, 1, EmptyMap, 0)

\* elf.rs:80-97 get_section_by_name: the first section of that name.
get_section_by_name(f, name) ==
    LET hits == {i \in 1..Len(f.sections) : f.sections[i].name = name} IN
    IF hits = {} THEN None
    ELSE Some(f.sections[CHOOSE i \in hits : \A j \in hits : i <= j])

\* elf.rs:329-333: the PLT sections examined, in this order.
PltSectionNames == <<".plt", ".plt.got", ".plt.sec">>

\* elf.rs:336-343: the value of the first DT_PLTGOT entry.
dt_pltgot(f) ==
    IF ~f.dynamic.some THEN Err("Failed to get dynamic linking information")
    ELSE LET dyns == f.dynamic.val
             hits == {i \in 1..Len(dyns) : dyns[i].d_tag = "DT_PLTGOT"} IN
         IF hits = {} THEN Err("Failed to get DT_PLTGOT information")
         ELSE Ok(dyns[CHOOSE i \in hits : \A j \in hits : i <= j].d_val)

\* elf.rs:347-350: the inverse of the GOT map. Names that share a slot
\* collide on the key; the one that stays is the last in the map's iteration
\* order, which is any of them.
GotTargetChoices(got_) ==
    LET addrs == {got_[n] : n \in DOMAIN got_} IN
    {t \in [addrs -> DOMAIN got_] : \A a \in addrs : got_[t[a]] = a}

\* elf.rs:193-196: the machines the emulator is created for.
SupportedMachine(f) ==
    f.e_machine \in {"EM_ARM", "EM_AARCH64", "EM_386", "EM_X86_64"}

\* elf.rs:244-250: the hook stores the address it is called with.
Hook(cell, addr) == Some(addr)

\* emu_start: the hooks fire for each address of the run, in order.
RECURSIVE RunHooks(_, _, _)
RunHooks(cell, trace, i) ==
    IF i > Len(trace) THEN cell
    ELSE RunHooks(Hook(cell, trace[i]), trace, i + 1)

\* elf.rs:301-306: the pair a finished run contributes.
PushObserved(plt_got_addresses, starting_address, cell) ==
    IF cell.some /\ cell.val # 0
    THEN Append(plt_got_addresses, <<starting_address, cell.val>>)
    ELSE plt_got_addresses

\* CrossRef with the fields of the pair taken the other way round in the
\* insert: the name is given the slot address.
RECURSIVE CrossRefSlot(_, _, _, _)
CrossRefSlot(plt_got_addresses, i, got_targets_, plt_symbols) ==
    IF i > Len(plt_got_addresses) THEN plt_symbols
    ELSE LET got_addr == plt_got_addresses[i][2] IN
         CrossRefSlot(plt_got_addresses, i + 1, got_targets_,
             IF got_addr \in DOMAIN got_targets_
             THEN Insert(plt_symbols, got_targets_[got_addr], got_addr)
             ELSE plt_symbols)

\* CrossRef that keeps the address a name already has.
RECURSIVE CrossRefKeepFirst(_, _, _, _)
CrossRefKeepFirst(plt_got_addresses, i, got_targets_, plt_symbols) ==
    IF i > Len(plt_got_addresses) THEN plt_symbols
    ELSE LET plt_addr == plt_got_addresses[i][1]
             got_addr == plt_got_addresses[i][2] IN
         CrossRefKeepFirst(plt_got_addresses, i + 1, got_targets_,
             IF got_addr \in DOMAIN got_targets_
                /\ ~ContainsKey(plt_symbols, got_targets_[got_addr])
             THEN Insert(plt_symbols, got_targets_[got_addr], plt_addr)
             ELSE plt_symbols)

\* elf.rs:365-369: the pairs of one section, in order; a later pair of a
\* name replaces an earlier one.
RECURSIVE CrossRef(_, _, _, _)
CrossRef(plt_got_addresses, i, got_targets_, plt_symbols) ==
    IF i > Len(plt_got_addresses) THEN plt_symbols
    ELSE LET plt_addr == plt_got_addresses[i][1]
             got_addr == plt_got_addresses[i][2] IN
         CrossRef(plt_got_addresses, i + 1, got_targets_,
             IF got_addr \in DOMAIN got_targets_
             THEN Insert(plt_symbols, got_targets_[got_addr], plt_addr)
             ELSE plt_symbols)

\* IsSymbolSection without the type 0x6ffffff3.
IsSymbolSectionNoSunw(section) ==
    section.sh_type \in {"SHT_SYMTAB", "SHT_DYNSYM"}

\* elf.rs:394-396: symbol-table section types.
IsSymbolSection(section) ==
    section.sh_type \in {"SHT_SYMTAB", "SHT_DYNSYM", "SHT_SUNW_LDYNSYM"}

\* CollectSyms that passes over an entry whose name it cannot get.
RECURSIVE CollectSymsSkip(_, _, _, _)
CollectSymsSkip(symtab, i, symbol_strings, acc) ==
    IF i > Len(symtab) THEN Ok(acc)
    ELSE IF symtab[i].st_value = 0
    THEN CollectSymsSkip(symtab, i + 1, symbol_strings, acc)
    ELSE LET symbol == StrtabGet(symbol_strings, symtab[i].st_name) IN
         IF ~symbol.some \/ symbol.val.tag # "Ok"
         THEN CollectSymsSkip(symtab, i + 1, symbol_strings, acc)
         ELSE CollectSymsSkip(symtab, i + 1, symbol_strings,
                              Insert(acc, symbol.val.val, symtab[i].st_value))

\* elf.rs:421-432: the entries of one table with a non-zero value, collected
\* into a map; a name that is not in the string table fails the collection.
RECURSIVE CollectSyms(_, _, _, _)
CollectSyms(symtab, i, symbol_strings, acc) ==
    IF i > Len(symtab) THEN Ok(acc)
    ELSE IF symtab[i].st_value = 0
    THEN CollectSyms(symtab, i + 1, symbol_strings, acc)
    ELSE LET symbol == StrtabGet(symbol_strings, symtab[i].st_name) IN
         IF ~symbol.some THEN Err("Strtab entry not found")
         ELSE IF symbol.val.tag # "Ok" THEN Err("Failed to get Strtab entry")
         ELSE CollectSyms(symtab, i + 1, symbol_strings,
                          Insert(acc, symbol.val.val, symtab[i].st_value))

\* elf.rs:391-434: static symbols of all symbol-table sections.
RECURSIVE StaticSymbols(_, _, _)
StaticSymbols(f, i, symbols_) ==
    IF i > Len(f.sections) THEN Ok(symbols_)
    ELSE LET section == f.sections[i] IN
    IF ~IsSymbolSection(section) THEN StaticSymbols(f, i + 1, symbols_)
    ELSE LET symtab == SymtabParse(f, section) IN
    IF symtab.tag # "Ok" THEN symtab
    ELSE LET symbol_string_section == SectionGet(f, section.sh_link) IN
    IF ~symbol_string_section.some
    THEN Err("Failed to get symbol string section")
    ELSE LET symbol_strings == StrtabParse(f, symbol_string_section.val) IN
    IF symbol_strings.tag # "Ok" THEN symbol_strings
    ELSE LET collected ==
                 CollectSyms(symtab.val, 1, symbol_strings.val, EmptyMap) IN
    IF collected.tag # "Ok" THEN collected
    ELSE StaticSymbols(f, i + 1, Extend(symbols_, collected.val))

\* PltStep without the contains_key test: a PLT entry replaces the bare name.
PltStepOverwrite(symbols_, name, addr) ==
    Insert(Insert(symbols_, "plt." \o name, addr), name, addr)

\* elf.rs:437-450: one iteration of the loop over the PLT map.
PltStep(symbols_, name, addr) ==
    LET s1 == Insert(symbols_, "plt." \o name, addr) IN
    IF ContainsKey(s1, name) THEN s1 ELSE Insert(s1, name, addr)

\* GotStep without the contains_key test: a GOT entry replaces the bare name.
GotStepOverwrite(symbols_, name, addr) ==
    Insert(Insert(symbols_, "got." \o name, addr), name, addr)

\* GotStep that keeps an existing prefixed key, as it keeps the bare name.
GotStepKeepPrefixed(symbols_, name, addr) ==
    LET s1 == IF ContainsKey(symbols_, "got." \o name) THEN symbols_
              ELSE Insert(symbols_, "got." \o name, addr) IN
    IF ContainsKey(s1, name) THEN s1 ELSE Insert(s1, name, addr)

\* elf.rs:453-466: one iteration of the loop over the GOT map.
GotStep(symbols_, name, addr) ==
    LET s1 == Insert(symbols_, "got." \o name, addr) IN
    IF ContainsKey(s1, name) THEN s1 ELSE Insert(s1, name, addr)

\* get_sym_addr that answers a missing key with the default address.
get_sym_addr_or_default(symbols_, sym) ==
    IF ContainsKey(symbols_, sym) THEN Ok(symbols_[sym]) ELSE Ok(0)

\* elf.rs:474-477, pe.rs:120-123 get_sym_addr.
get_sym_addr(symbols_, sym) ==
    IF ContainsKey(symbols_, sym) THEN Ok(symbols_[sym])
    ELSE Err("Symbol not found")

\* A lookup through the entry API, which inserts the default for a missing key.
SymbolsAfterEntryLookup(symbols_, sym) ==
    IF ContainsKey(symbols_, sym) THEN symbols_ ELSE Insert(symbols_, sym, 0)

\* elf.rs:474-475, pe.rs:120-121: HashMap::get through &self leaves the map
\* as it is.
SymbolsAfterLookup(symbols_, sym) == symbols_

\* ------------------------------------------------------------------ state

VARIABLES
    file,         \* raw_bytes: the file at the path
    pc,           \* position in from_path
    kind,         \* the handle from_path returned: "none", "pe" or "elf"
    err,          \* the error or panic that ended from_path, with its context
    iat,          \* PEBinary.iat
    eat,          \* PEBinary.eat
    got,          \* ELFBinary.got
    plt,          \* ELFBinary.plt (plt_symbols while parse_plt runs)
    symbols,      \* the symbol map of the handle under construction
    todo,         \* keys the running loop over a hash map has not yet visited
    got_targets,  \* parse_plt: slot address to name
    sec,          \* parse_plt: index into the three PLT sections
    begin,        \* emulate_plt_instructions: loop counter
    mem_fault_addr,     \* the cell the hooks write
    plt_got_addresses,  \* pairs recorded for the section being emulated
    events,       \* what open has done: relocation walk, DT_PLTGOT, emulator
    observed,     \* every (starting_address, hooked address) a run ended with
    query,        \* the last get_sym_addr call: caller, sym, result
    emu_context,  \* the emulator's CPU context: as saved, or as a run left it
    runs,         \* the candidate runs of this open, in the order they ran
    calls         \* the constructors and passes entered, in order

vars == <<file, pc, kind, err, iat, eat, got, plt, symbols, todo, got_targets,
          sec, begin, mem_fault_addr, plt_got_addresses, events, observed,
          query, emu_context, runs, calls>>

\* The fields of a handle and the file it was built from.
image == <<file, kind, iat, eat, got, plt, symbols>>

\* Locals of parse_plt and emulate_plt_instructions.
pltvars == <<got_targets, sec, begin, mem_fault_addr, plt_got_addresses,
             emu_context>>

NoQuery == [caller |-> 0]

NoError == [context |-> "", msg |-> ""]

Init ==
    /\ file \in Files
    /\ pc = "pe_iat"
    /\ kind = "none"
    /\ err = NoError
    /\ iat = EmptyMap
    /\ eat = EmptyMap
    /\ got = EmptyMap
    /\ plt = EmptyMap
    /\ symbols = EmptyMap
    /\ todo = {}
    /\ got_targets = EmptyMap
    /\ sec = 0
    /\ begin = 0
    /\ mem_fault_addr = None
    /\ plt_got_addresses = <<>>
    /\ events = {}
    /\ observed = {}
    /\ query = NoQuery
    /\ emu_context = "none"
    /\ runs = <<>>
    /\ calls = <<>>

\* ----------------------------------------------------- PEBinary::new steps

\* pe.rs:25 and mod.rs:30-34: a failing PEBinary::new hands over to
\* ELFBinary::new.
PeParseIat ==
    /\ pc = "pe_iat"
    /\ LET r == parse_iat(file) IN
       IF r.tag = "Ok"
       THEN /\ iat' = r.val
            /\ pc' = "pe_eat"
       ELSE /\ pc' = "elf_got"
            /\ UNCHANGED iat
    /\ calls' = calls \o <<"PEBinary::new", "parse_iat">>
    /\ UNCHANGED <<file, kind, err, eat, got, plt, symbols, todo, pltvars,
                   events, observed, query, runs>>

\* pe.rs:26, 31.
PeParseEat ==
    /\ pc = "pe_eat"
    /\ LET r == parse_eat(file) IN
       IF r.tag = "Ok"
       THEN /\ eat' = r.val
            /\ todo' = DOMAIN r.val
            /\ pc' = "pe_sym_eat"
            /\ UNCHANGED iat
       ELSE /\ iat' = EmptyMap
            /\ pc' = "elf_got"
            /\ UNCHANGED <<eat, todo>>
    /\ calls' = Append(calls, "parse_eat")
    /\ UNCHANGED <<file, kind, err, got, plt, symbols, pltvars, events,
                   observed, query, runs>>

\* pe.rs:34-41: the loop over the export map, in the map's iteration order.
PeSymEat ==
    /\ pc = "pe_sym_eat"
    /\ IF todo = {}
       THEN /\ pc' = "pe_sym_iat"
            /\ todo' = DOMAIN iat
            /\ UNCHANGED symbols
       ELSE \E name \in todo :
            /\ symbols' = EatStep(symbols, name, eat[name])
            /\ todo' = todo \ {name}
            /\ UNCHANGED pc
    /\ UNCHANGED <<file, kind, err, iat, eat, got, plt, pltvars, events,
                   observed, query, runs, calls>>

\* PeSymIat without the return of mod.rs:31: from_path goes on to
\* ELFBinary::new after PEBinary::new succeeded.
PeSymIatNoReturn ==
    /\ pc = "pe_sym_iat"
    /\ IF todo = {}
       THEN /\ pc' = "elf_got"
            /\ kind' = "pe"
            /\ UNCHANGED <<symbols, todo>>
       ELSE \E name \in todo :
            /\ symbols' = IatStep(symbols, name, iat[name])
            /\ todo' = todo \ {name}
            /\ UNCHANGED <<pc, kind>>
    /\ UNCHANGED <<file, err, iat, eat, got, plt, pltvars, events, observed,
                   query, runs, calls>>

\* pe.rs:44-65: the loop over the import map, then Ok(PEBinary {..}) and the
\* return of mod.rs:30-32.
PeSymIat ==
    /\ pc = "pe_sym_iat"
    /\ IF todo = {}
       THEN /\ pc' = "done"
            /\ kind' = "pe"
            /\ UNCHANGED <<symbols, todo>>
       ELSE \E name \in todo :
            /\ symbols' = IatStep(symbols, name, iat[name])
            /\ todo' = todo \ {name}
            /\ UNCHANGED <<pc, kind>>
    /\ UNCHANGED <<file, err, iat, eat, got, plt, pltvars, events, observed,
                   query, runs, calls>>

\* ---------------------------------------------------- ELFBinary::new steps

\* elf.rs:44-47, mod.rs:34-37: an error ends ELFBinary::new and from_path
\* with the context of the failing pass; a panic unwinds through both.
Fail(context, r) ==
    /\ pc' = IF r.tag = "Panic" THEN "panicked" ELSE "failed"
    /\ err' = [context |-> context,
               msg |-> IF r.tag = "Panic" THEN "panic" ELSE r.msg]

\* elf.rs:44.
ElfParseGot ==
    /\ pc = "elf_got"
    /\ LET r == parse_got(file) IN
       IF r.res.tag = "Ok"
       THEN /\ got' = r.res.val
            /\ events' = IF r.walked > 0 THEN events \cup {"reloc_walk"}
                                          ELSE events
            /\ pc' = "elf_plt"
            /\ UNCHANGED err
       ELSE /\ Fail("Failed to populate got", r.res)
            /\ UNCHANGED <<got, events>>
    /\ calls' = calls \o <<"ELFBinary::new", "parse_got">>
    /\ UNCHANGED <<file, kind, iat, eat, plt, symbols, todo, pltvars, observed,
                   query, runs>>

\* elf.rs:313-350: parse_plt up to the loop over the sections.
ElfParsePlt ==
    /\ pc = "elf_plt"
    /\ IF StaticallyLinked(file)
       THEN /\ plt' = EmptyMap
            /\ pc' = "elf_syms"
            /\ UNCHANGED <<err, events, got_targets, sec>>
       ELSE LET d == dt_pltgot(file) IN
            /\ events' = events \cup {"dt_pltgot"}
            /\ plt' = EmptyMap
            /\ IF d.tag = "Ok"
               THEN /\ got_targets' \in GotTargetChoices(got)
                    /\ sec' = 1
                    /\ pc' = "plt_sections"
                    /\ UNCHANGED err
               ELSE /\ Fail("Failed to populate plt", d)
                    /\ UNCHANGED <<got_targets, sec>>
    /\ calls' = Append(calls, "parse_plt")
    /\ UNCHANGED <<file, kind, iat, eat, got, symbols, todo, begin,
                   mem_fault_addr, plt_got_addresses, observed, query,
                   emu_context, runs>>

\* PltSection with the machine tested before the section is looked up: an
\* unsupported machine fails the pass also when the section is missing.
PltSectionMachineFirst ==
    /\ pc = "plt_sections"
    /\ IF sec > Len(PltSectionNames)
       THEN /\ pc' = "elf_syms"
            /\ UNCHANGED <<err, sec, events, begin, mem_fault_addr,
                           plt_got_addresses, emu_context>>
       ELSE LET section == get_section_by_name(file, PltSectionNames[sec]) IN
            IF ~SupportedMachine(file)
            THEN /\ Fail("Failed to populate plt",
                         Err("Unsupported architecture"))
                 /\ UNCHANGED <<sec, events, begin, mem_fault_addr,
                                plt_got_addresses, emu_context>>
            ELSE IF ~section.some
            THEN /\ sec' = sec + 1
                 /\ UNCHANGED <<pc, err, events, begin, mem_fault_addr,
                                plt_got_addresses, emu_context>>
            ELSE IF Slice(file, section.val).tag # "Ok"
            THEN /\ Fail("Failed to populate plt", Slice(file, section.val))
                 /\ UNCHANGED <<sec, events, begin, mem_fault_addr,
                                plt_got_addresses, emu_context>>
            ELSE /\ events' = events \cup {"emu_new"}
                 /\ mem_fault_addr' = None
                 /\ plt_got_addresses' = <<>>
                 /\ begin' = 0
                 /\ emu_context' = "saved_ctx"
                 /\ pc' = "emu_loop"
                 /\ UNCHANGED <<err, sec>>
    /\ UNCHANGED <<file, kind, iat, eat, got, plt, symbols, todo, got_targets,
                   observed, query, runs, calls>>

\* elf.rs:353-362 and 186-276: the next PLT section; a missing one is
\* skipped, the bytes of an existing one are sliced out of the file and
\* handed to an emulator of its own.
PltSection ==
    /\ pc = "plt_sections"
    /\ IF sec > Len(PltSectionNames)
       THEN /\ pc' = "elf_syms"
            /\ UNCHANGED <<err, sec, events, begin, mem_fault_addr,
                           plt_got_addresses, emu_context>>
       ELSE LET section == get_section_by_name(file, PltSectionNames[sec]) IN
            IF ~section.some
            THEN /\ sec' = sec + 1
                 /\ UNCHANGED <<pc, err, events, begin, mem_fault_addr,
                                plt_got_addresses, emu_context>>
            ELSE IF Slice(file, section.val).tag # "Ok"
            THEN /\ Fail("Failed to populate plt", Slice(file, section.val))
                 /\ UNCHANGED <<sec, events, begin, mem_fault_addr,
                                plt_got_addresses, emu_context>>
            ELSE IF ~SupportedMachine(file)
            THEN /\ Fail("Failed to populate plt",
                         Err("Unsupported architecture"))
                 /\ UNCHANGED <<sec, events, begin, mem_fault_addr,
                                plt_got_addresses, emu_context>>
            ELSE /\ events' = events \cup {"emu_new"}
                 /\ mem_fault_addr' = None
                 /\ plt_got_addresses' = <<>>
                 /\ begin' = 0
                 /\ emu_context' = "saved_ctx"
                 /\ pc' = "emu_loop"
                 /\ UNCHANGED <<err, sec>>
    /\ UNCHANGED <<file, kind, iat, eat, got, plt, symbols, todo, got_targets,
                   observed, query, runs, calls>>

\* ClearCell that leaves the cell as the run before left it.
KeepCell(cell) == cell

\* elf.rs:283: mem_fault_addr.set(None).
ClearCell(cell) == None

\* elf.rs:281-282: context_restore(&saved_ctx).
context_restore(ctx) == "saved_ctx"

\* StartingAddress with a stride of one byte.
StartingAddressUnscaled(plt_section_address, begin_) ==
    plt_section_address + begin_

\* StartingAddress one candidate too far.
StartingAddressNext(plt_section_address, begin_) ==
    plt_section_address + (begin_ + 1) * Stride

\* elf.rs:292: the address a candidate run starts at.
StartingAddress(plt_section_address, begin_) ==
    plt_section_address + begin_ * Stride

\* elf.rs:293-298: what the hooks see in a run of candidate begin_. From the
\* saved context it is what the bytes at that offset do; from the context
\* another run left behind it is anything.
RunTraces(section, begin_, ctx) ==
    IF ctx = "saved_ctx" THEN {section.data[begin_ + 1]} ELSE OneReadTraces

\* elf.rs:293-298: what ends the run: an emulator error (the access to
\* unmapped memory, an invalid instruction), the until address, the timeout
\* or the instruction count.
RunStop(section, begin_) ==
    IF begin_ + 1 \in DOMAIN section.stops THEN section.stops[begin_ + 1]
    ELSE "error"

\* What a call into the emulator library returns: Ok or an error.
EmuResults == {Ok(0), Err("uc_error")}

\* elf.rs:286: the images for which EBX is written before a run.
WritesEbx(f) == ~f.is_64 /\ f.e_machine # "EM_ARM"

\* elf.rs:293-298: the result of emu_start: an error when the run ended
\* with a fault or an invalid instruction, Ok when it reached the until
\* address, the timeout or the instruction count.
emu_start(stop) == IF stop = "error" THEN Err("emulation failed") ELSE Ok(0)

\* PropagateResult: the result of emu_start handed on with '?'.
PropagateResult(r) == r

\* elf.rs:293: let _ = emu.emu_start(...): the result is dropped.
DropResult(r) == Ok(0)

\* elf.rs:279-307: one candidate; when the counter reaches len / 4 the pairs
\* go back to parse_plt, which cross-references them (elf.rs:365-369). A
\* failing context_restore or EBX write ends the pass with its error
\* (elf.rs:281-282, 287-288); the result of emu_start is dropped.
EmuCandidate ==
    /\ pc = "emu_loop"
    /\ LET section == get_section_by_name(file, PltSectionNames[sec]).val
           len == section.sh_size
       IN IF begin < len \div Stride
          THEN LET ctx == context_restore(emu_context)
                   cleared == ClearCell(mem_fault_addr)
                   starting_address == StartingAddress(section.sh_addr, begin)
                   stop == RunStop(section, begin)
               IN \E restored \in EmuResults :
                  IF restored.tag = "Err"
                  THEN /\ Fail("Failed to populate plt",
                               Err("Failed to restore context"))
                       /\ UNCHANGED <<plt, sec, begin, mem_fault_addr,
                                      plt_got_addresses, emu_context,
                                      observed, runs>>
                  ELSE \E written \in IF WritesEbx(file) THEN EmuResults
                                                         ELSE {Ok(0)} :
                  IF written.tag = "Err"
                  THEN /\ Fail("Failed to populate plt",
                               Err("Failed to write to EBX"))
                       /\ mem_fault_addr' = cleared
                       /\ emu_context' = ctx
                       /\ UNCHANGED <<plt, sec, begin, plt_got_addresses,
                                      observed, runs>>
                  ELSE \E trace \in RunTraces(section, begin, ctx) :
                  LET after == RunHooks(cleared, trace, 1)
                      started == DropResult(emu_start(stop))
                      pairs == PushObserved(plt_got_addresses,
                                            starting_address, after)
                      run == [sec |-> sec, begin |-> begin,
                              starting_address |-> starting_address,
                              context |-> ctx, cleared |-> cleared,
                              ebx |-> IF WritesEbx(file)
                                      THEN Some(dt_pltgot(file).val) ELSE None,
                              trace |-> trace, stop |-> stop, cell |-> after,
                              pushed |-> IF started.tag = "Err" THEN <<>>
                                         ELSE SubSeq(pairs,
                                                  Len(plt_got_addresses) + 1,
                                                  Len(pairs))]
                  IN /\ mem_fault_addr' = after
                     /\ emu_context' = "after_run"
                     /\ observed' =
                            IF after.some
                            THEN observed \cup {<<starting_address, after.val>>}
                            ELSE observed
                     /\ runs' = Append(runs, run)
                     /\ IF started.tag = "Err"
                        THEN /\ Fail("Failed to populate plt", started)
                             /\ UNCHANGED <<begin, plt_got_addresses>>
                        ELSE /\ plt_got_addresses' = pairs
                             /\ begin' = begin + 1
                             /\ UNCHANGED <<pc, err>>
                     /\ UNCHANGED <<plt, sec>>
          ELSE /\ plt' = CrossRef(plt_got_addresses, 1, got_targets, plt)
               /\ sec' = sec + 1
               /\ pc' = "plt_sections"
               /\ UNCHANGED <<err, begin, mem_fault_addr, plt_got_addresses,
                              emu_context, observed, runs>>
    /\ UNCHANGED <<file, kind, iat, eat, got, symbols, todo, got_targets,
                   events, query, calls>>

\* elf.rs:388-434.
ElfParseStatic ==
    /\ pc = "elf_syms"
    /\ LET r == StaticSymbols(file, 1, EmptyMap) IN
       IF r.tag = "Ok"
       THEN /\ symbols' = r.val
            /\ todo' = DOMAIN plt
            /\ pc' = "sym_plt"
            /\ UNCHANGED err
       ELSE /\ Fail("Failed to populate symbols", r)
            /\ UNCHANGED <<symbols, todo>>
    /\ calls' = Append(calls, "parse_symbols")
    /\ UNCHANGED <<file, kind, iat, eat, got, plt, pltvars, events, observed,
                   query, runs>>

\* elf.rs:437-450: the loop over the PLT map, in the map's iteration order.
SymPlt ==
    /\ pc = "sym_plt"
    /\ IF todo = {}
       THEN /\ pc' = "sym_got"
            /\ todo' = DOMAIN got
            /\ UNCHANGED symbols
       ELSE \E name \in todo :
            /\ symbols' = PltStep(symbols, name, plt[name])
            /\ todo' = todo \ {name}
            /\ UNCHANGED pc
    /\ UNCHANGED <<file, kind, err, iat, eat, got, plt, pltvars, events,
                   observed, query, runs, calls>>

\* elf.rs:453-468 and 49-54: the loop over the GOT map, then Ok(ELFBinary).
SymGot ==
    /\ pc = "sym_got"
    /\ IF todo = {}
       THEN /\ pc' = "done"
            /\ kind' = "elf"
            /\ UNCHANGED <<symbols, todo>>
       ELSE \E name \in todo :
            /\ symbols' = GotStep(symbols, name, got[name])
            /\ todo' = todo \ {name}
            /\ UNCHANGED <<pc, kind>>
    /\ UNCHANGED <<file, err, iat, eat, got, plt, pltvars, events, observed,
                   query, runs, calls>>

\* --------------------------------------------------------------- queries

\* Names callers ask for: keys the maps can hold, and names that are no key
\* (another case, a prefix of a key, an unknown name).
QuerySyms ==
    {"f", "plt.f", "iat.f", "F", "pl", "nonexistingentry"}

\* mod.rs:5, elf.rs:474-477, pe.rs:120-123: get_sym_addr(&self, sym).
Resolve(caller, sym) ==
    /\ pc = "done"
    /\ query' = [caller |-> caller, sym |-> sym,
                 result |-> get_sym_addr(symbols, sym)]
    /\ symbols' = SymbolsAfterLookup(symbols, sym)
    /\ UNCHANGED <<file, pc, kind, err, iat, eat, got, plt, todo, pltvars,
                   events, observed, runs, calls>>

Next ==
    \/ PeParseIat
    \/ PeParseEat
    \/ PeSymEat
    \/ PeSymIat
    \/ ElfParseGot
    \/ ElfParsePlt
    \/ PltSection
    \/ EmuCandidate
    \/ ElfParseStatic
    \/ SymPlt
    \/ SymGot
    \/ \E caller \in 1..NumCallers, sym \in QuerySyms : Resolve(caller, sym)

Spec == Init /\ [][Next]_vars

\* ------------------------------------------------------------------ claims

\* from_path returned a handle of that format.
ElfOpened == pc = "done" /\ kind = "elf"

PeOpened == pc = "done" /\ kind = "pe"

\* The (name, value) pairs of the static symbol tables of an ELF file: the
\* entries of symbol-table sections with a non-zero value.
StaticEntries(f) ==
    {<<f.sections[f.sections[i].sh_link + 1].data[f.sections[i].data[j].st_name + 1],
       f.sections[i].data[j].st_value>> :
        <<i, j>> \in {ij \in (1..Len(f.sections)) \X (1..3) :
                        /\ IsSymbolSection(f.sections[ij[1]])
                        /\ ij[2] <= Len(f.sections[ij[1]].data)
                        /\ f.sections[ij[1]].data[ij[2]].st_value # 0}}

StaticNames(f) == {e[1] : e \in StaticEntries(f)}

StaticValues(f, N) == {e[2] : e \in {x \in StaticEntries(f) : x[1] = N}}

\* The prefixed keys the PLT and GOT maps materialize.
PrefixedKeys == {"plt." \o n : n \in DOMAIN plt} \cup {"got." \o n : n \in DOMAIN got}

\* C1 as stated: every name with a non-zero static entry resolves to one of
\* its static values, whatever the PLT and GOT maps hold, prefixed keys
\* 'plt.<name>' / 'got.<name>' equal to the name included.
C1_StaticAlwaysWins ==
    ElfOpened =>
        \A N \in StaticNames(file) :
            /\ get_sym_addr(symbols, N).tag = "Ok"
            /\ get_sym_addr(symbols, N).val \in StaticValues(file, N)

\* C1 amended: every name with a non-zero static entry that is not the
\* prefixed key 'plt.<p>' of a PLT entry p or 'got.<g>' of a GOT entry g
\* resolves to one of its static values, also when the name itself is in the
\* PLT or GOT map.
C1_StaticWinsOnBareName ==
    ElfOpened =>
        \A N \in StaticNames(file) \ PrefixedKeys :
            /\ get_sym_addr(symbols, N).tag = "Ok"
            /\ get_sym_addr(symbols, N).val \in StaticValues(file, N)

\* A static name that is also a PLT and a GOT name, with other addresses
\* there, beside a second PLT entry.
C1_Witness ==
    /\ ElfOpened
    /\ "f" \in StaticNames(file) \ PrefixedKeys
    /\ "f" \in DOMAIN plt /\ "f" \in DOMAIN got
    /\ plt["f"] \notin StaticValues(file, "f")
    /\ got["f"] \notin StaticValues(file, "f")
    /\ Cardinality(DOMAIN plt) = 2

\* C2 as stated: a name without a non-zero static entry resolves to its PLT
\* address if it is in the PLT map, else to its GOT address if it is in the
\* GOT map, in every iteration order of the two maps.
C2_PltThenGot ==
    ElfOpened =>
        \A N \in (DOMAIN plt \cup DOMAIN got) \ StaticNames(file) :
            /\ N \in DOMAIN symbols
            /\ N \in DOMAIN plt => symbols[N] = plt[N]
            /\ N \notin DOMAIN plt => symbols[N] = got[N]

\* C2 amended: the same for every such name that is not the prefixed key
\* 'plt.<p>' of a PLT entry p or 'got.<g>' of a GOT entry g.
C2_PltThenGotOnBareName ==
    ElfOpened =>
        \A N \in (DOMAIN plt \cup DOMAIN got) \ (StaticNames(file) \cup PrefixedKeys) :
            /\ N \in DOMAIN symbols
            /\ N \in DOMAIN plt => symbols[N] = plt[N]
            /\ N \notin DOMAIN plt => symbols[N] = got[N]

\* A name in both maps at different addresses and none in the static tables,
\* beside a second name that is in the GOT map alone.
C2_Witness ==
    /\ ElfOpened
    /\ "f" \notin StaticNames(file)
    /\ "f" \in DOMAIN plt /\ "f" \in DOMAIN got /\ plt["f"] # got["f"]
    /\ symbols["f"] = plt["f"]
    /\ \E N \in DOMAIN got \ (DOMAIN plt \cup StaticNames(file) \cup PrefixedKeys) :
           symbols[N] = got[N]

\* C3: in an opened ELF image every GOT name N has the key 'got.N' with
\* value got[N] and every PLT name N has the key 'plt.N' with value plt[N],
\* whatever N starts with and whether or not N is a static symbol.
C3_PrefixClosureElf ==
    ElfOpened =>
        /\ \A N \in DOMAIN got :
               get_sym_addr(symbols, "got." \o N) = Ok(got[N])
        /\ \A N \in DOMAIN plt :
               get_sym_addr(symbols, "plt." \o N) = Ok(plt[N])

\* A static symbol named 'got.f' with another value than the GOT entry f, and
\* a GOT name that itself starts with 'got.'.
C3_Witness ==
    /\ ElfOpened
    /\ "got.f" \in StaticNames(file)
    /\ "f" \in DOMAIN got /\ "got.f" \in DOMAIN got
    /\ got["f"] \notin StaticValues(file, "got.f")
    /\ got["f"] # got["got.f"]
    /\ DOMAIN plt # {}

\* C4: in an opened PE image every import N has the key 'iat.N' with value
\* iat[N] and every export N has the key 'eat.N' with value eat[N], whatever
\* the names start with, in every iteration order of the two maps.
C4_PrefixClosurePe ==
    PeOpened =>
        /\ \A N \in DOMAIN iat :
               get_sym_addr(symbols, "iat." \o N) = Ok(iat[N])
        /\ \A N \in DOMAIN eat :
               get_sym_addr(symbols, "eat." \o N) = Ok(eat[N])

\* The prefixed keys the export and import maps materialize.
PePrefixedKeys == {"eat." \o n : n \in DOMAIN eat} \cup {"iat." \o n : n \in DOMAIN iat}

\* C5 as stated: an export resolves to its export address, whether or not it
\* is an import too, and a name that is only an import to its import address.
C5_EatThenIat ==
    PeOpened =>
        \A N \in DOMAIN eat \cup DOMAIN iat :
            /\ N \in DOMAIN symbols
            /\ N \in DOMAIN eat => symbols[N] = eat[N]
            /\ N \notin DOMAIN eat => symbols[N] = iat[N]

\* C5 amended: the same for every name that is not the prefixed key
\* 'eat.<e>' of an export e or 'iat.<i>' of an import i.
C5_EatThenIatOnBareName ==
    PeOpened =>
        \A N \in (DOMAIN eat \cup DOMAIN iat) \ PePrefixedKeys :
            /\ N \in DOMAIN symbols
            /\ N \in DOMAIN eat => symbols[N] = eat[N]
            /\ N \notin DOMAIN eat => symbols[N] = iat[N]

\* A name that is an export and an import at different addresses.
C5_Witness ==
    /\ PeOpened
    /\ "f" \in DOMAIN eat /\ "f" \in DOMAIN iat /\ eat["f"] # iat["f"]
    /\ symbols["f"] = eat["f"]
    /\ \E N \in DOMAIN iat \ (DOMAIN eat \cup PePrefixedKeys) : symbols[N] = iat[N]

\* The values a map holds.
Values(m) == {m[k] : k \in DOMAIN m}

\* C6: in an opened image, ELF or PE, no key of the GOT, PLT, IAT, EAT or
\* symbol map maps to 0.
C6_NoZeroAddresses ==
    pc = "done" =>
        0 \notin Values(got) \cup Values(plt) \cup Values(iat) \cup Values(eat)
                  \cup Values(symbols)

\* C7: for an ELF without a PT_INTERP program header the GOT and the PLT
\* pass end without an error and with empty maps; no relocation section is
\* walked, DT_PLTGOT is not looked up and no emulator is created, whatever
\* relocation and PLT sections the file has.
C7_StaticShortCircuit ==
    (file.fmt = "elf" /\ StaticallyLinked(file)) =>
        /\ got = EmptyMap
        /\ plt = EmptyMap
        /\ events = {}
        /\ pc \notin {"plt_sections", "emu_loop"}
        /\ err.context \notin {"Failed to populate got", "Failed to populate plt"}

\* A statically linked image with two relocations in a section whose link
\* is no section of the file, a .plt whose stub reads a slot and no dynamic
\* array, opened.
C7_Witness ==
    /\ ElfOpened
    /\ StaticallyLinked(file)
    /\ ~file.dynamic.some
    /\ \E i \in 1..Len(file.sections) :
           /\ file.sections[i].sh_type = "SHT_RELA"
           /\ Len(file.sections[i].data) = 2
           /\ ~SectionGet(file, file.sections[i].sh_link).some
    /\ get_section_by_name(file, ".plt").some
    /\ get_section_by_name(file, ".plt").val.data[1] # <<>>
    /\ got = EmptyMap /\ plt = EmptyMap

\* C8: every name n of the PLT map is a name of the GOT map, and a run that
\* started at plt[n] ended with the hooked address got[n]; also when two GOT
\* names share a slot.
C8_PltGotCorrespondence ==
    \A n \in DOMAIN plt :
        /\ n \in DOMAIN got
        /\ <<plt[n], got[n]>> \in observed

\* Two GOT names in one slot, one of them given a PLT address.
C8_Witness ==
    /\ ElfOpened
    /\ \E n \in DOMAIN plt, m \in DOMAIN got : n # m /\ got[n] = got[m]

\* C9: a get_sym_addr call on an opened handle, ELF or PE, returned the
\* value stored under exactly the key asked for if the symbol map has that
\* key, and the symbol-not-found error otherwise.
C9_QueryResult ==
    query # NoQuery =>
        /\ kind \in {"elf", "pe"}
        /\ query.sym \in DOMAIN symbols =>
               query.result.tag = "Ok" /\ query.result.val = symbols[query.sym]
        /\ query.sym \notin DOMAIN symbols =>
               query.result.tag = "Err" /\ query.result.msg = "Symbol not found"

\* A call for a name that is a proper prefix of a key and for no key itself.
C9_Witness ==
    /\ pc = "done"
    /\ "plt.f" \in DOMAIN symbols
    /\ query # NoQuery
    /\ query.sym = "pl"
    /\ query.result.tag = "Err"

\* C10: on an opened handle every step (a get_sym_addr call of any caller)
\* leaves the file, the GOT/PLT/IAT/EAT maps and the symbol map as they are,
\* and a call for the name of the call before it returns the same result.
C10_QueryReadOnly ==
    [][pc = "done" =>
        /\ image' = image
        /\ (query # NoQuery /\ query'.sym = query.sym) =>
               query'.result = query.result]_vars

\* The second caller's call failed after a call of the first.
C10_Witness ==
    /\ pc = "done"
    /\ query # NoQuery
    /\ query.caller = NumCallers
    /\ query.result.tag = "Err"

\* The functions entered so far.
Called == {calls[i] : i \in DOMAIN calls}

\* A PE image that PEBinary::new accepts: every export has a name or is
\* re-exported by ordinal.
PeParses(f) ==
    /\ f.fmt = "pe"
    /\ \A i \in 1..Len(f.exports) :
           \/ f.exports[i].name.some
           \/ /\ f.exports[i].reexport.some
              /\ f.exports[i].reexport.val.kind = "DLLOrdinal"

\* C11: from_path enters PEBinary::new first. If that succeeds the handle is
\* a PE handle and ELFBinary::new is never entered; ELFBinary::new is entered
\* only after PEBinary::new was entered and failed; if both fail from_path
\* ends with an error and without a handle.
C11_PeFirst ==
    /\ calls # <<>> => calls[1] = "PEBinary::new"
    /\ PeParses(file) =>
           /\ "ELFBinary::new" \notin Called
           /\ kind \in {"none", "pe"}
           /\ pc \notin {"failed", "panicked"}
    /\ kind = "pe" => pc = "done" /\ PeParses(file)
    /\ \A i \in DOMAIN calls :
           calls[i] = "ELFBinary::new" =>
               /\ ~PeParses(file)
               /\ i > 1
               /\ kind # "pe"
               /\ "PEBinary::new" \in {calls[j] : j \in 1..(i - 1)}
    /\ kind = "elf" => pc = "done" /\ "ELFBinary::new" \in Called
    /\ pc \in {"failed", "panicked"} =>
           /\ kind = "none"
           /\ {"PEBinary::new", "ELFBinary::new"} \subseteq Called
    /\ (~PeParses(file) /\ file.fmt # "elf") => kind = "none" /\ pc # "done"

\* A PE image with an export that has no key: PEBinary::new failed in
\* parse_eat, ELFBinary::new was entered after it and failed too.
C11_Witness ==
    /\ pc = "failed"
    /\ file.fmt = "pe"
    /\ kind = "none"
    /\ calls = <<"PEBinary::new", "parse_iat", "parse_eat", "ELFBinary::new",
                 "parse_got">>

\* The exports of f without a name that are re-exported by ordinal.
OrdinalExports(f) ==
    {i \in 1..Len(f.exports) :
        /\ ~f.exports[i].name.some
        /\ f.exports[i].reexport.some
        /\ f.exports[i].reexport.val.kind = "DLLOrdinal"}

\* The key 'ordinal_<k>' of such an export.
OrdinalKey(f, i) == "ordinal_" \o ToString(f.exports[i].reexport.val.ordinal)

\* The exports of f, named or not, that are stored under the key of export i.
SameKey(f, i) ==
    {j \in 1..Len(f.exports) :
        \/ j \in OrdinalExports(f) /\ OrdinalKey(f, j) = OrdinalKey(f, i)
        \/ f.exports[j].name = Some(OrdinalKey(f, i))}

\* C12 as stated: in an opened PE image the EAT and the symbol map hold, for
\* every export without a name that is re-exported by ordinal k, the key
\* 'ordinal_<k>' with the RVA of that export, however many such exports the
\* table has.
C12_OrdinalKeys ==
    PeOpened =>
        \A i \in OrdinalExports(file) :
            /\ get_sym_addr(eat, OrdinalKey(file, i)) = Ok(file.exports[i].rva)
            /\ get_sym_addr(symbols, OrdinalKey(file, i)) = Ok(file.exports[i].rva)

\* C12 amended: the key 'ordinal_<k>' is in both maps and holds the RVA of
\* the last export of the table stored under that key (another export
\* re-exported by ordinal k, or an export named 'ordinal_<k>'); it is the
\* export's own RVA when no later export has the key.
C12_OrdinalKeysLastExport ==
    PeOpened =>
        \A i \in OrdinalExports(file) :
            LET last == CHOOSE j \in SameKey(file, i) :
                            \A l \in SameKey(file, i) : l <= j
            IN /\ get_sym_addr(eat, OrdinalKey(file, i)) = Ok(file.exports[last].rva)
               /\ get_sym_addr(symbols, OrdinalKey(file, i)) =
                      Ok(file.exports[last].rva)

\* Two exports without a name re-exported by the same ordinal with
\* different RVAs, and no named export after them.
C12_Witness ==
    /\ PeOpened
    /\ Len(file.exports) = 2
    /\ OrdinalExports(file) = {1, 2}
    /\ OrdinalKey(file, 1) = OrdinalKey(file, 2)
    /\ file.exports[1].rva # file.exports[2].rva
    /\ eat["ordinal_7"] = file.exports[2].rva

\* One aggregation loop with the map iterated in one fixed order.
RECURSIVE LoopInFixedOrder(_, _, _, _)
LoopInFixedOrder(pass, symbols_, m, todo_) ==
    IF todo_ = {} THEN symbols_
    ELSE LET name == CHOOSE n \in todo_ : TRUE
             stepped == CASE pass = "eat" -> EatStep(symbols_, name, m[name])
                          [] pass = "iat" -> IatStep(symbols_, name, m[name])
                          [] pass = "plt" -> PltStep(symbols_, name, m[name])
                          [] pass = "got" -> GotStep(symbols_, name, m[name])
         IN LoopInFixedOrder(pass, stepped, m, todo_ \ {name})

\* The pairs the candidates of one PLT section contribute.
RECURSIVE PairsOfSection(_, _, _)
PairsOfSection(section, begin_, pairs) ==
    IF begin_ < section.sh_size \div Stride
    THEN PairsOfSection(section, begin_ + 1,
             PushObserved(pairs, StartingAddress(section.sh_addr, begin_),
                          RunHooks(None, section.data[begin_ + 1], 1)))
    ELSE pairs

\* The PLT map of a dynamically linked image for one inverse GOT map.
RECURSIVE PltOfSections(_, _, _, _)
PltOfSections(f, i, got_targets_, plt_symbols) ==
    IF i > Len(PltSectionNames) THEN plt_symbols
    ELSE LET section == get_section_by_name(f, PltSectionNames[i]) IN
         PltOfSections(f, i + 1, got_targets_,
             IF section.some
             THEN CrossRef(PairsOfSection(section.val, 0, <<>>), 1,
                           got_targets_, plt_symbols)
             ELSE plt_symbols)

\* The PLT map of the open in which the inverse GOT map is built in one
\* fixed iteration order of the GOT map.
PltInFixedOrder(f, got_) ==
    IF StaticallyLinked(f) THEN EmptyMap
    ELSE PltOfSections(f, 1, CHOOSE t \in GotTargetChoices(got_) : TRUE,
                       EmptyMap)

\* C13: every open of the same bytes ends with the same maps: the maps of an
\* opened handle are those of the open in which every hash map is iterated
\* in one fixed order, so no collision (two GOT names in one slot, an export
\* named 'eat.' + another export) is decided by an iteration order.
C13_SameMapsEveryOpen ==
    /\ ElfOpened =>
           /\ plt = PltInFixedOrder(file, got)
           /\ symbols =
                  LoopInFixedOrder("got",
                      LoopInFixedOrder("plt",
                          StaticSymbols(file, 1, EmptyMap).val,
                          PltInFixedOrder(file, got),
                          DOMAIN PltInFixedOrder(file, got)),
                      got, DOMAIN got)
    /\ PeOpened =>
           symbols = LoopInFixedOrder("iat",
                         LoopInFixedOrder("eat", EmptyMap, eat, DOMAIN eat),
                         iat, DOMAIN iat)

\* A dynamically linked ELF image whose dynamic array has no DT_PLTGOT entry.
NoDtPltGot(f) ==
    /\ f.fmt = "elf"
    /\ ~StaticallyLinked(f)
    /\ f.dynamic.some
    /\ \A i \in 1..Len(f.dynamic.val) : f.dynamic.val[i].d_tag # "DT_PLTGOT"

\* The image has a section named .plt, .plt.got or .plt.sec.
HasPltSection(f) ==
    \E i \in 1..Len(f.sections), j \in 1..Len(PltSectionNames) :
        f.sections[i].name = PltSectionNames[j]

\* C14: for a dynamically linked ELF image without DT_PLTGOT the open fails
\* if one of .plt, .plt.got, .plt.sec exists; if none exists the PLT pass
\* does not fail the open and the PLT map is empty.
C14_MissingDtPltGot ==
    NoDtPltGot(file) =>
        /\ HasPltSection(file) =>
               pc \notin {"plt_sections", "emu_loop", "elf_syms", "sym_plt",
                          "sym_got", "done"}
        /\ ~HasPltSection(file) =>
               /\ err.context # "Failed to populate plt"
               /\ plt = EmptyMap

\* from_path has returned or unwound.
Returned == pc \in {"done", "failed", "panicked"}

\* An ELF image of a machine the emulator is not created for.
OtherMachine(f) ==
    /\ f.fmt = "elf"
    /\ f.e_machine \notin {"EM_386", "EM_X86_64", "EM_ARM", "EM_AARCH64"}

\* C15 as stated: for an image of another machine the unsupported-
\* architecture error comes only from the PLT pass emulating an existing PLT
\* section, and parse_got and parse_symbols are both entered whatever the
\* machine and however the PLT pass ended (images whose DT_PLTGOT lookup
\* fails, the case of C14, left aside).
C15_PassesAttemptedRegardless ==
    OtherMachine(file) =>
        /\ err.msg = "Unsupported architecture" =>
               /\ err.context = "Failed to populate plt"
               /\ HasPltSection(file)
        /\ (/\ Returned
            /\ err.context # "Failed to populate got"
            /\ err.msg \notin {"Failed to get dynamic linking information",
                                "Failed to get DT_PLTGOT information"}) =>
               {"parse_got", "parse_symbols"} \subseteq Called

\* C15 amended: the error comes only from the PLT pass emulating an existing
\* PLT section of a dynamically linked image; parse_got is entered whatever
\* the machine; parse_symbols is entered exactly when the GOT pass and the
\* PLT pass both ended without an error, so never after the unsupported-
\* architecture error.
C15_PassesInSequence ==
    OtherMachine(file) =>
        /\ err.msg = "Unsupported architecture" =>
               /\ err.context = "Failed to populate plt"
               /\ HasPltSection(file)
               /\ ~StaticallyLinked(file)
               /\ "parse_symbols" \notin Called
        /\ "ELFBinary::new" \in Called => "parse_got" \in Called
        /\ Returned =>
               ("parse_symbols" \in Called <=>
                    err.context \notin {"Failed to populate got",
                                        "Failed to populate plt"})

\* An image of another machine with a .plt section: the GOT pass was
\* entered and filled the map, the PLT pass ended with the error, the symbol
\* pass was not entered.
C15_Witness ==
    /\ OtherMachine(file)
    /\ pc = "failed"
    /\ err.msg = "Unsupported architecture"
    /\ got # EmptyMap
    /\ calls = <<"PEBinary::new", "parse_iat", "ELFBinary::new", "parse_got",
                 "parse_plt">>

\* C16: the address a candidate's run contributes is the first address the
\* hooks were called with in that run, also when they were called again with
\* other addresses.
C16_FirstHookedAccess ==
    \A i \in DOMAIN runs :
        runs[i].pushed # <<>> => runs[i].pushed[1][2] = runs[i].trace[1]

\* parse_plt has returned Ok for a dynamically linked image.
PltPassDone ==
    /\ pc \in {"elf_syms", "sym_plt", "sym_got", "done", "failed"}
    /\ "parse_plt" \in Called
    /\ err.context # "Failed to populate plt"
    /\ ~StaticallyLinked(file)

\* The runs that recorded a pair whose address the inverse GOT map gives to n.
RunsFor(n) ==
    {i \in DOMAIN runs :
        /\ runs[i].pushed # <<>>
        /\ runs[i].pushed[1][2] \in DOMAIN got_targets
        /\ got_targets[runs[i].pushed[1][2]] = n}

\* C17: the candidates run section by section in the order .plt, .plt.got,
\* .plt.sec and by ascending offset within a section, and when the PLT pass
\* is over plt[n] is the stub address of the last candidate, in that order,
\* that recorded an address the inverse GOT map gives to n: an earlier
\* candidate never overrides a later one, within a section or across
\* sections. A name no candidate recorded is not in the PLT map.
C17_LastCandidateWins ==
    /\ \A i, j \in DOMAIN runs :
           i < j => \/ runs[i].sec < runs[j].sec
                    \/ runs[i].sec = runs[j].sec /\ runs[i].begin < runs[j].begin
    /\ \A i \in DOMAIN runs :
           runs[i].starting_address =
               get_section_by_name(file, PltSectionNames[runs[i].sec]).val.sh_addr
                   + 4 * runs[i].begin
    /\ PltPassDone =>
           \A n \in DOMAIN got \cup DOMAIN plt :
               IF RunsFor(n) = {} THEN n \notin DOMAIN plt
               ELSE LET last == CHOOSE i \in RunsFor(n) :
                                    \A j \in RunsFor(n) : j <= i
                    IN n \in DOMAIN plt /\ plt[n] = runs[last].starting_address

\* "f" was recorded by the second .plt stub at 20 and then by the .plt.got
\* stub at the lower address 8, which is the one that stays; "g" was
\* recorded by the first .plt stub and by the .plt.sec stub.
C17_Witness ==
    /\ ElfOpened
    /\ Len(runs) = 4
    /\ RunsFor("f") = {2, 3}
    /\ RunsFor("g") = {1, 4}
    /\ runs[2].starting_address = 20
    /\ plt["f"] = 8
    /\ plt["g"] = 48

\* The image has the k-th PLT section.
HasPlt(k) ==
    file.fmt = "elf" /\ get_section_by_name(file, PltSectionNames[k]).some

\* The emulation of the k-th PLT section has returned its pairs.
SectionEmulated(k) ==
    /\ HasPlt(k)
    /\ "emu_new" \in events
    /\ sec > k

\* The addresses the runs of the k-th PLT section started at, in the order
\* they ran.
StartsOf(k) ==
    LET of_k == SelectSeq(runs, LAMBDA r : r.sec = k) IN
    [i \in 1..Len(of_k) |-> of_k[i].starting_address]

\* C18: for a PLT section at address A with size S the runs start at
\* A + 4 * i for 0 <= i < floor(S / 4), each once and in ascending order; no
\* run starts outside [A, A + S), and trailing bytes fewer than 4 are no
\* candidate.
C18_CandidateAddresses ==
    \A k \in {j \in 1..Len(PltSectionNames) : HasPlt(j)} :
        LET section == get_section_by_name(file, PltSectionNames[k]).val
            A == section.sh_addr
            S == section.sh_size
        IN /\ \A i \in DOMAIN StartsOf(k) :
                  /\ A <= StartsOf(k)[i]
                  /\ StartsOf(k)[i] + 4 <= A + S
                  /\ StartsOf(k)[i] = A + 4 * (i - 1)
           /\ SectionEmulated(k) =>
                  StartsOf(k) = [i \in 1..(S \div 4) |-> A + 4 * (i - 1)]

\* A .plt of 10 bytes at 16: the runs started at 16 and 20, the last two
\* bytes were no candidate.
C18_Witness ==
    /\ ElfOpened
    /\ HasPlt(1)
    /\ get_section_by_name(file, ".plt").val.sh_size = 10
    /\ SectionEmulated(1)
    /\ StartsOf(1) = <<16, 20>>

\* The addresses the hooks were called with in a run.
Hooked(r) == {r.trace[j] : j \in DOMAIN r.trace}

\* C19: every candidate starts from the saved context and with an empty
\* cell, so a run is what the bytes of its own candidate do, the address it
\* contributes is one the hooks were called with in that run, never the one
\* a run before it left in the cell, and a run in which no hook fired
\* contributes no pair.
C19_NoCarryOver ==
    \A i \in DOMAIN runs :
        LET r == runs[i]
            section == get_section_by_name(file, PltSectionNames[r.sec]).val
        IN /\ r.context = "saved_ctx"
           /\ r.cleared = None
           /\ r.trace = section.data[r.begin + 1]
           /\ r.cell.some => r.cell.val \in Hooked(r)
           /\ r.pushed # <<>> =>
                  /\ r.pushed[1][1] = r.starting_address
                  /\ r.pushed[1][2] \in Hooked(r)
           /\ r.trace = <<>> => r.pushed = <<>> /\ ~r.cell.some

\* A run in which no hook fired, right after a run of the same section that
\* contributed a pair.
C19_Witness ==
    /\ Len(runs) >= 2
    /\ runs[1].sec = runs[2].sec
    /\ runs[1].pushed # <<>>
    /\ runs[2].trace = <<>>
    /\ plt_got_addresses = runs[1].pushed

\* The end state of a candidate: TIMEOUT when the run used up the timeout or
\* the instruction count, else OBSERVED when a hook fired, else NO_READ.
Outcome(r) ==
    IF r.stop \in {"timeout", "count"} THEN "TIMEOUT"
    ELSE IF r.trace # <<>> THEN "OBSERVED"
    ELSE "NO_READ"

\* C20: every candidate ends in one of OBSERVED, TIMEOUT and NO_READ; only a
\* candidate that ends OBSERVED with a non-zero address contributes a pair,
\* and a candidate whose run used up the timeout or the instruction count
\* contributes nothing.
C20_CandidateOutcomes ==
    \A i \in DOMAIN runs :
        /\ runs[i].pushed # <<>> <=>
               /\ Outcome(runs[i]) = "OBSERVED"
               /\ runs[i].cell.some
               /\ runs[i].cell.val # 0
        /\ runs[i].stop \in {"timeout", "count"} => runs[i].pushed = <<>>

\* The per-candidate steps whose failure ends the pass (elf.rs:281-288).
FatalCandidateSteps == {"Failed to restore context", "Failed to write to EBX"}

\* C21 as stated: once the emulator is set up, no failure while processing
\* a candidate, a failing per-candidate step included, makes the PLT pass
\* fail.
C21_NoCandidateFailureFails ==
    pc = "failed" /\ err.context = "Failed to populate plt"
        => "emu_new" \notin events

\* C21: once the emulator is set up, no failure of a candidate's emulation
\* run (fault, invalid instruction, timeout, instruction count) fails the PLT
\* pass: every run is followed by the next candidate; the only failures of
\* the pass inside the loop are a failing context restore or EBX write.
C21_RunFailuresSwallowed ==
    /\ pc = "failed" /\ err.context = "Failed to populate plt"
           /\ "emu_new" \in events
        => err.msg \in FatalCandidateSteps
    /\ pc = "emu_loop"
        => /\ Cardinality({i \in DOMAIN runs : runs[i].sec = sec}) = begin
           /\ err = NoError

\* An image opened although its first candidate's run ended with the
\* timeout and its second candidate's run with an emulator error.
C21_Witness ==
    /\ ElfOpened
    /\ Len(runs) = 2
    /\ runs[1].stop = "timeout"
    /\ runs[2].stop = "error"

\* C22: a candidate's run is preceded by a write of EBX exactly when the
\* image is 32-bit x86 (EM_386 of the 32-bit class), and the value written
\* is the DT_PLTGOT value; no run of an EM_ARM, EM_AARCH64 or EM_X86_64
\* image is preceded by one.
C22_EbxOnlyOn32BitX86 ==
    \A i \in DOMAIN runs :
        /\ runs[i].ebx.some <=> (file.e_machine = "EM_386" /\ ~file.is_64)
        /\ runs[i].ebx.some => runs[i].ebx.val = dt_pltgot(file).val

\* parse_got of a dynamically linked ELF image has returned its map.
GotBuilt ==
    /\ file.fmt = "elf"
    /\ ~StaticallyLinked(file)
    /\ "parse_plt" \in Called

\* The symbol table and the string table a relocation section links to.
LinkedSymbols(f, i) == f.sections[f.sections[i].sh_link + 1]

LinkedStrings(f, i) == f.sections[LinkedSymbols(f, i).sh_link + 1]

\* The relocations <<section, index>> of the eligible sections of f (type
\* SHT_REL or SHT_RELA, sh_link not SHN_UNDEF) with a non-zero symbol index.
EligibleRelocs(f) ==
    UNION {{<<i, j>> : j \in {k \in DOMAIN f.sections[i].data :
                                 f.sections[i].data[k].r_sym # 0}} :
           i \in {k \in DOMAIN f.sections :
                     /\ f.sections[k].sh_type \in {"SHT_REL", "SHT_RELA"}
                     /\ f.sections[k].sh_link # 0}}

\* Those whose symbol is in the linked symbol table and whose name offset is
\* inside the linked string table.
ResolvingRelocs(f) ==
    {p \in EligibleRelocs(f) :
        /\ f.sections[p[1]].data[p[2]].r_sym < Len(LinkedSymbols(f, p[1]).data)
        /\ LinkedSymbols(f, p[1]).data[f.sections[p[1]].data[p[2]].r_sym + 1].st_name
              < Len(LinkedStrings(f, p[1]).data)}

RelocName(f, p) ==
    LinkedStrings(f, p[1]).data[
        LinkedSymbols(f, p[1]).data[f.sections[p[1]].data[p[2]].r_sym + 1].st_name + 1]

RelocOffset(f, p) == f.sections[p[1]].data[p[2]].r_offset

\* p comes before q in section-header order, then relocation order.
Before(p, q) == p[1] < q[1] \/ (p[1] = q[1] /\ p[2] < q[2])

\* The relocations of f that resolve to name n, and the last of them.
RelocsOf(f, n) ==
    LET resolving == ResolvingRelocs(f) IN
    {p \in resolving : RelocName(f, p) = n}

LastRelocOf(f, n) ==
    LET of == RelocsOf(f, n) IN
    CHOOSE p \in of : \A q \in of : ~Before(p, q)

\* C23 as stated: the GOT map has the entry name -> r_offset for every
\* relocation with a non-zero symbol index of an eligible section (name
\* being the name of the indexed symbol), and no other entry.
C23_EntryPerRelocation ==
    GotBuilt =>
        /\ \A p \in ResolvingRelocs(file) :
              /\ ContainsKey(got, RelocName(file, p))
              /\ got[RelocName(file, p)] = RelocOffset(file, p)
        /\ \A n \in DOMAIN got : RelocsOf(file, n) # {}

\* C23 amended: the keys of the GOT map are the names of the indexed
\* symbols of the relocations with a non-zero symbol index of the eligible
\* sections, and each name maps to the r_offset of the last relocation
\* that resolves to it; relocations with symbol index 0 and sections of
\* another type or with sh_link SHN_UNDEF contribute nothing.
C23_EntryPerName ==
    GotBuilt =>
        /\ DOMAIN got = {RelocName(file, p) : p \in ResolvingRelocs(file)}
        /\ \A n \in DOMAIN got :
              got[n] = RelocOffset(file, LastRelocOf(file, n))

\* A GOT map built from two eligible sections, past a relocation with
\* symbol index 0, a section with sh_link SHN_UNDEF or of another type.
C23_Witness ==
    /\ GotBuilt
    /\ file \in RelocElfFiles
    /\ file.sections[4].data[1].r_sym = 0
    /\ file.sections[6].sh_link # 0
    /\ file.sections[6].data # <<>>
    /\ DOMAIN got = {"f", "g"}
    /\ got["g"] = 1

\* A dynamically linked ELF image with a relocation of an eligible section
\* whose symbol is in the linked symbol table and has a name offset beyond
\* the end of the linked string table.
NameBeyondEnd(f) ==
    /\ f.fmt = "elf"
    /\ ~StaticallyLinked(f)
    /\ \E p \in EligibleRelocs(f) :
          /\ f.sections[p[1]].sh_link < Len(f.sections)
          /\ LinkedSymbols(f, p[1]).sh_link < Len(f.sections)
          /\ f.sections[p[1]].data[p[2]].r_sym < Len(LinkedSymbols(f, p[1]).data)
          /\ LinkedSymbols(f, p[1]).data[f.sections[p[1]].data[p[2]].r_sym + 1].st_name
                >= Len(LinkedStrings(f, p[1]).data)

\* C24: a relocation with a non-zero symbol index whose symbol's name
\* offset lies beyond the end of the string table fails the GOT build and
\* the open: parse_got never returns a map for such an image.
C24_NameBeyondEndFatal ==
    NameBeyondEnd(file) => ~GotBuilt /\ ~ElfOpened

\* parse_symbols has just ingested the static symbol tables: the symbol map
\* is its static part, before the first PLT or GOT entry is added.
StaticIngested == pc = "sym_plt" /\ todo = DOMAIN plt

\* The entries <<section, index>> with a non-zero value of the sections of
\* type SHT_SYMTAB, SHT_DYNSYM or 0x6ffffff3.
SymbolEntries(f) ==
    UNION {{<<i, j>> : j \in {k \in DOMAIN f.sections[i].data :
                                 f.sections[i].data[k].st_value # 0}} :
           i \in {k \in DOMAIN f.sections :
                     f.sections[k].sh_type \in
                         {"SHT_SYMTAB", "SHT_DYNSYM", "SHT_SUNW_LDYNSYM"}}}

EntryName(f, p) ==
    f.sections[f.sections[p[1]].sh_link + 1].data[
        f.sections[p[1]].data[p[2]].st_name + 1]

EntryValue(f, p) == f.sections[p[1]].data[p[2]].st_value

EntriesOf(f, n) == {p \in SymbolEntries(f) : EntryName(f, p) = n}

LastEntryOf(f, n) ==
    LET of == EntriesOf(f, n) IN
    CHOOSE p \in of : \A q \in of : ~Before(p, q)

\* C25: the static part of the symbol map holds exactly the names of the
\* entries with a non-zero value of the sections of type SHT_SYMTAB,
\* SHT_DYNSYM and 0x6ffffff3, each with the value of such an entry (the last
\* ingested); an entry with value 0 and a section of another type add
\* nothing, so a name with only such entries is not in the static part.
C25_StaticIngestion ==
    StaticIngested =>
        /\ DOMAIN symbols = {EntryName(file, p) : p \in SymbolEntries(file)}
        /\ \A n \in DOMAIN symbols :
              symbols[n] = EntryValue(file, LastEntryOf(file, n))

\* The static part built from .dynsym, .symtab and the 0x6ffffff3 section:
\* "f" has value 0 in .dynsym, "h" a non-zero value in .symtab and "g" a
\* non-zero value in the 0x6ffffff3 section only; "f" is left to the PLT.
C25_Witness ==
    /\ StaticIngested
    /\ file \in SymtabElfFiles
    /\ file.sections[3].data[2].st_value = 0
    /\ file.sections[3].data[3].st_value = 0
    /\ file.sections[8].sh_type = "SHT_SUNW_LDYNSYM"
    /\ DOMAIN symbols = {"h", "g"}
    /\ symbols["g"] = 13
    /\ DOMAIN plt = {"f"}

\* An ELF image with a symbol-table section whose sh_link names no section
\* of the file, or with an entry of non-zero value whose name offset lies
\* beyond the linked string table or whose name does not decode.
UnresolvableStatic(f) ==
    /\ f.fmt = "elf"
    /\ \E i \in DOMAIN f.sections :
          /\ f.sections[i].sh_type \in
                 {"SHT_SYMTAB", "SHT_DYNSYM", "SHT_SUNW_LDYNSYM"}
          /\ \/ f.sections[i].sh_link >= Len(f.sections)
             \/ \E j \in DOMAIN f.sections[i].data :
                   /\ f.sections[i].data[j].st_value # 0
                   /\ \/ f.sections[i].data[j].st_name
                            >= Len(f.sections[f.sections[i].sh_link + 1].data)
                      \/ EntryName(f, <<i, j>>) = InvalidString

\* C26: an image with an unresolvable name on a non-zero entry of a
\* symbol-table section, or with a symbol-table section whose sh_link names
\* no section, is never opened and no symbol map is built for it; once
\* parse_symbols has been entered, the open ends with its error.
C26_StaticNameFailuresFatal ==
    UnresolvableStatic(file) =>
        /\ ~ElfOpened
        /\ symbols = EmptyMap
        /\ "parse_symbols" \in Called
            => /\ pc = "failed"
               /\ err.context = "Failed to populate symbols"
               /\ err.msg \in {"Strtab entry not found",
                               "Failed to get Strtab entry",
                               "Failed to get symbol string section"}

\* The open has failed in parse_symbols, after a GOT and a PLT map were
\* built, on a name offset beyond the end of the string table.
C26_Witness ==
    /\ UnresolvableStatic(file)
    /\ pc = "failed"
    /\ err = [context |-> "Failed to populate symbols",
              msg |-> "Strtab entry not found"]
    /\ plt # EmptyMap

\* An ELF image with a structural defect in a section its open reads: a
\* symbol-table section with sh_entsize 0, with an sh_link that names no
\* section or with bytes beyond the end of the file, or, in a dynamically
\* linked image, an eligible relocation section with such a link or such
\* bytes, or a PLT section with bytes beyond the end of the file.
Malformed(f) ==
    /\ f.fmt = "elf"
    /\ \E i \in DOMAIN f.sections :
          \/ /\ f.sections[i].sh_type \in
                    {"SHT_SYMTAB", "SHT_DYNSYM", "SHT_SUNW_LDYNSYM"}
             /\ \/ f.sections[i].sh_entsize = 0
                \/ f.sections[i].sh_link >= Len(f.sections)
                \/ ~InFile(f, f.sections[i])
          \/ /\ ~StaticallyLinked(f)
             /\ f.sections[i].sh_type \in {"SHT_REL", "SHT_RELA"}
             /\ f.sections[i].sh_link # 0
             /\ \/ f.sections[i].sh_link >= Len(f.sections)
                \/ ~InFile(f, f.sections[i])
          \/ /\ ~StaticallyLinked(f)
             /\ \E n \in DOMAIN PltSectionNames :
                   f.sections[i].name = PltSectionNames[n]
             /\ ~InFile(f, f.sections[i])

\* C27: the open of a malformed image ends with an error and without an
\* image: it never panics and never returns an image.
C27_MalformedIsAnError ==
    Malformed(file) => pc \notin {"panicked", "done"} /\ kind = "none"

\* The PLT sections of f the pass examines.
ExaminedPltSections(f) ==
    {get_section_by_name(f, PltSectionNames[k]).val :
        k \in {j \in DOMAIN PltSectionNames :
                  get_section_by_name(f, PltSectionNames[j]).some}}

\* C28: every value of the PLT map is a candidate address of an examined
\* PLT section (A <= plt[n] < A + S and plt[n] - A a multiple of 4, A the
\* section's address and S its size); every key of the PLT map is a key of
\* the GOT map; an empty GOT map gives an empty PLT map.
C28_PltOverCandidates ==
    /\ \A n \in DOMAIN plt :
          /\ \E section \in ExaminedPltSections(file) :
                /\ section.sh_addr <= plt[n]
                /\ plt[n] < section.sh_addr + section.sh_size
                /\ (plt[n] - section.sh_addr) % 4 = 0
          /\ n \in DOMAIN got
    /\ got = EmptyMap => plt = EmptyMap

\* An opened image whose PLT map has the second candidate of .plt and the
\* only candidate of .plt.got.
C28_Witness ==
    /\ ElfOpened
    /\ file \in MultiPltElfFiles
    /\ DOMAIN plt = {"f", "g"}
    /\ plt["f"] = 20
    /\ plt["g"] = 8

\* C29: when several relocations resolve to the same name, in one section
\* or in several, the GOT map holds the r_offset of the last of them in
\* section-header order, then relocation order; the inverse GOT map, the
\* PLT entry of the name and the key 'got.<name>' are made from that
\* r_offset and from none of the earlier ones.
C29_LastRelocationWins ==
    GotBuilt =>
        \A n \in {m \in DOMAIN got : Cardinality(RelocsOf(file, m)) > 1} :
            LET last == RelocOffset(file, LastRelocOf(file, n)) IN
            /\ got[n] = last
            /\ \A a \in DOMAIN got_targets : got_targets[a] = n => a = last
            /\ ContainsKey(plt, n)
                => \E i \in DOMAIN runs :
                      /\ runs[i].starting_address = plt[n]
                      /\ runs[i].pushed = <<(<<plt[n], last>>)>>
            /\ ElfOpened => /\ ContainsKey(symbols, "got." \o n)
                            /\ symbols["got." \o n] = last

\* An opened image with "f" at r_offset 1 and then 2 in .rela.plt and at
\* r_offset 0 in the later .rel.dyn: the GOT map has f at 0, and the stub
\* that reads slot 2 has no PLT entry.
C29_Witness ==
    /\ ElfOpened
    /\ file \in RelocElfFiles
    /\ file.sections[4].data = <<Reloc(1, 1), Reloc(1, 2)>>
    /\ file.sections[6].sh_link = 2
    /\ file.sections[6].data = <<Reloc(2, 1), Reloc(1, 0)>>
    /\ got = [f |-> 0, g |-> 1]
    /\ symbols["got.f"] = 0
    /\ plt = [g |-> 16]

\* The key of export i of f that has one: its name, or 'ordinal_<k>' for an
\* export without a name that is re-exported by the DLL ordinal k.
ExportKey(f, i) ==
    IF f.exports[i].name.some THEN f.exports[i].name.val
    ELSE "ordinal_" \o ToString(f.exports[i].reexport.val.ordinal)

\* C30: a PE image with an export that has no name and is not re-exported
\* by DLL ordinal never becomes a PE handle, and nothing of it is kept (no
\* EAT, IAT or symbol entry); the EAT of an opened PE image has the key of
\* every export of the image.
C30_ExportsAllOrNothing ==
    /\ file.fmt = "pe" /\ ~PeParses(file)
        => /\ kind # "pe"
           /\ eat = EmptyMap
           /\ symbols = EmptyMap
           /\ "parse_eat" \in Called => iat = EmptyMap
    /\ PeOpened
        => \A i \in DOMAIN file.exports : ContainsKey(eat, ExportKey(file, i))

\* The open of a PE image whose first export is named "f" and whose second
\* export has neither a name nor a re-export has failed after parse_eat.
C30_Witness ==
    /\ file \in OrdinalPeFiles
    /\ file.exports[2].reexport = None
    /\ "parse_eat" \in Called
    /\ pc = "failed"
    /\ kind = "none"
    /\ eat = EmptyMap

====
